---- MODULE Spec2Model ----
(***************************************************************************)
(* The node-pool reconciler of src/03b-nodepool-cloudfunc/main.py as a     *)
(* state machine.  One invocation of main is a sequence of remote calls    *)
(* (list pools, pool detail, delete, list availability domains, capacity   *)
(* report, image catalog, create, webhook); the provider's pools, the      *)
(* capacity status and the image catalog are the remote state, which the   *)
(* provider may change between any two calls.                              *)
(*                                                                         *)
(* Python strings are sequences of one-character strings, so that lower(), *)
(* lstrip() and the substring test `in` are computed, not assumed.         *)
(* An optional value (None or a value) is <<>> or <<v>>.  A pool id is a   *)
(* positive number; the id None is 0.                                      *)
(***************************************************************************)
EXTENDS Integers, Sequences, FiniteSets, TLC

(***************************************************************************)
(* String constants.                                                       *)
(***************************************************************************)
\* NEEDLE = "cannot create compute instance"  (src line 97: the diagnostic substring)
NEEDLE ==
  <<"c", "a", "n", "n", "o", "t", " ", "c", "r", "e", "a", "t", "e", " ", "c", "o", "m", "p", "u", "t", "e", " ", "i", "n", "s", "t", "a", "n", "c", "e">>
\* AARCH64 = "aarch64"  (src line 164: the ARM architecture marker)
AARCH64 ==
  <<"a", "a", "r", "c", "h", "6", "4">>
\* GPU = "GPU"  (src line 166: the GPU label)
GPU ==
  <<"G", "P", "U">>
\* A1 = "A1"  (src line 255: the ARM shape-family marker)
A1 ==
  <<"A", "1">>
\* DEFAULT_NODE_SHAPE = "VM.Standard.A1.Flex"  (src line 247)
DEFAULT_NODE_SHAPE ==
  <<"V", "M", ".", "S", "t", "a", "n", "d", "a", "r", "d", ".", "A", "1", ".", "F", "l", "e", "x">>
\* X86_NODE_SHAPE = "VM.Standard.E4.Flex"  (an x86 shape, for the is_arm = False case)
X86_NODE_SHAPE ==
  <<"V", "M", ".", "S", "t", "a", "n", "d", "a", "r", "d", ".", "E", "4", ".", "F", "l", "e", "x">>
\* DEFAULT_K8S_VERSION = "v1.32.1"  (src line 251)
DEFAULT_K8S_VERSION ==
  <<"v", "1", ".", "3", "2", ".", "1">>
\* BARE_K8S_VERSION = "1.32.1"  (the same version configured without the marker)
BARE_K8S_VERSION ==
  <<"1", ".", "3", "2", ".", "1">>
\* DiagCapLower = "cannot create compute instance: out of host capacity"  (a capacity diagnostic, lower case)
DiagCapLower ==
  <<"c", "a", "n", "n", "o", "t", " ", "c", "r", "e", "a", "t", "e", " ", "c", "o", "m", "p", "u", "t", "e", " ", "i", "n", "s", "t", "a", "n", "c", "e", ":", " ", "o", "u", "t", " ", "o", "f", " ", "h", "o", "s", "t", " ", "c", "a", "p", "a", "c", "i", "t", "y">>
\* DiagCapMixed = "Error: Cannot Create Compute Instance"  (a capacity diagnostic, mixed case)
DiagCapMixed ==
  <<"E", "r", "r", "o", "r", ":", " ", "C", "a", "n", "n", "o", "t", " ", "C", "r", "e", "a", "t", "e", " ", "C", "o", "m", "p", "u", "t", "e", " ", "I", "n", "s", "t", "a", "n", "c", "e">>
\* DiagNear = "cannot create instance"  (a diagnostic that is not the capacity one)
DiagNear ==
  <<"c", "a", "n", "n", "o", "t", " ", "c", "r", "e", "a", "t", "e", " ", "i", "n", "s", "t", "a", "n", "c", "e">>
\* DiagOther = "node is provisioning"  (a diagnostic of a progressing node)
DiagOther ==
  <<"n", "o", "d", "e", " ", "i", "s", " ", "p", "r", "o", "v", "i", "s", "i", "o", "n", "i", "n", "g">>
\* ImgArm = "Oracle-Linux-8.10-aarch64-OKE-1.32.1"  (ARM image of the version)
ImgArm ==
  <<"O", "r", "a", "c", "l", "e", "-", "L", "i", "n", "u", "x", "-", "8", ".", "1", "0", "-", "a", "a", "r", "c", "h", "6", "4", "-", "O", "K", "E", "-", "1", ".", "3", "2", ".", "1">>
\* ImgX86 = "Oracle-Linux-8.10-OKE-1.32.1"  (x86 image of the version)
ImgX86 ==
  <<"O", "r", "a", "c", "l", "e", "-", "L", "i", "n", "u", "x", "-", "8", ".", "1", "0", "-", "O", "K", "E", "-", "1", ".", "3", "2", ".", "1">>
\* ImgGpu = "Oracle-Linux-8.10-GPU-OKE-1.32.1"  (x86 GPU image of the version)
ImgGpu ==
  <<"O", "r", "a", "c", "l", "e", "-", "L", "i", "n", "u", "x", "-", "8", ".", "1", "0", "-", "G", "P", "U", "-", "O", "K", "E", "-", "1", ".", "3", "2", ".", "1">>
\* ImgArmGpu = "Oracle-Linux-8.10-aarch64-GPU-OKE-1.32.1"  (ARM GPU image of the version)
ImgArmGpu ==
  <<"O", "r", "a", "c", "l", "e", "-", "L", "i", "n", "u", "x", "-", "8", ".", "1", "0", "-", "a", "a", "r", "c", "h", "6", "4", "-", "G", "P", "U", "-", "O", "K", "E", "-", "1", ".", "3", "2", ".", "1">>
\* ImgArmOld = "Oracle-Linux-8.10-aarch64-OKE-1.31.1"  (ARM image of another version)
ImgArmOld ==
  <<"O", "r", "a", "c", "l", "e", "-", "L", "i", "n", "u", "x", "-", "8", ".", "1", "0", "-", "a", "a", "r", "c", "h", "6", "4", "-", "O", "K", "E", "-", "1", ".", "3", "1", ".", "1">>

(***************************************************************************)
(* Bounds of the model.                                                    *)
(***************************************************************************)
\* pools of the configured name the provider lists at once
MaxPools == 2
\* nodes of a pool, in the stuck-detection specification
MaxNodes == 3
\* images of a catalog, in the image-resolution specification
MaxCatalog == 3

(***************************************************************************)
(* Python built-ins.                                                       *)
(***************************************************************************)
None == <<>>
Some(v) == <<v>>

\* `x or ""`, `x or []`: None and the empty value both give the empty value
OrEmpty(x) == IF x = None THEN <<>> ELSE x[1]

UPPER ==
  <<"A", "B", "C", "D", "E", "F", "G", "H", "I", "J", "K", "L", "M",
    "N", "O", "P", "Q", "R", "S", "T", "U", "V", "W", "X", "Y", "Z">>
LOWER ==
  <<"a", "b", "c", "d", "e", "f", "g", "h", "i", "j", "k", "l", "m",
    "n", "o", "p", "q", "r", "s", "t", "u", "v", "w", "x", "y", "z">>

LowerChar(c) ==
  IF \E i \in 1..26 : UPPER[i] = c
  THEN LOWER[CHOOSE i \in 1..26 : UPPER[i] = c]
  ELSE c

\* str.lower()
Lower(s) == [i \in 1..Len(s) |-> LowerChar(s[i])]

\* `needle in hay` on strings
Contains(needle, hay) ==
  \E i \in 0..(Len(hay) - Len(needle)) :
    \A j \in 1..Len(needle) : hay[i + j] = needle[j]

\* str.lstrip(chars): drops every leading character that is in chars
RECURSIVE LStrip(_, _)
LStrip(s, chars) ==
  IF s # <<>> /\ Head(s) \in chars THEN LStrip(Tail(s), chars) ELSE s

Min(S) == CHOOSE x \in S : \A y \in S : x <= y

\* all sequences over S of length at most n
SeqUpTo(S, n) == UNION {[1..k -> S] : k \in 0..n}

(***************************************************************************)
(* check_existing_nodepool (lines 54-73).  resp is the listing's response: *)
(* ok = FALSE when list_node_pools raised; data is None or the list of     *)
(* pool summaries [id, lifecycle_state].  Returns <<pool_id, pool_state>>, *)
(* <<0, "None">> for (None, None).                                         *)
(***************************************************************************)
NON_TERMINAL_STATES ==
  {"ACTIVE", "CREATING", "UPDATING", "NEEDS_ATTENTION", "FAILED", "DELETING"}

NoPool == <<0, "None">>

\* the mutant: a failed listing is reported as a pool being deleted, so
\* that the invocation waits
check_existing_nodepool_failclosed(resp) ==
  IF ~resp.ok THEN <<1, "DELETING">>
  ELSE LET data == OrEmpty(resp.data)
           hits == {i \in 1..Len(data) :
                      data[i].lifecycle_state \in NON_TERMINAL_STATES}
       IN  IF hits = {} THEN NoPool
           ELSE <<data[Min(hits)].id, data[Min(hits)].lifecycle_state>>

\* the mutant: a pool in DELETING is not counted among the pools found
check_existing_nodepool_nodeleting(resp) ==
  IF ~resp.ok THEN NoPool
  ELSE LET data == OrEmpty(resp.data)
           hits == {i \in 1..Len(data) :
                      data[i].lifecycle_state \in NON_TERMINAL_STATES \ {"DELETING"}}
       IN  IF hits = {} THEN NoPool
           ELSE <<data[Min(hits)].id, data[Min(hits)].lifecycle_state>>

check_existing_nodepool(resp) ==
  IF ~resp.ok THEN NoPool
  ELSE LET data == OrEmpty(resp.data)
           hits == {i \in 1..Len(data) :
                      data[i].lifecycle_state \in NON_TERMINAL_STATES}
       IN  IF hits = {} THEN NoPool
           ELSE <<data[Min(hits)].id, data[Min(hits)].lifecycle_state>>

(***************************************************************************)
(* is_nodepool_stuck (lines 76-109).  resp is get_node_pool's response:    *)
(* ok = FALSE when it raised; nodes is None or the list of the nodes'      *)
(* lifecycle_details, each None or a string.                               *)
(***************************************************************************)
\* the mutant: the diagnostic is compared as it is, without lower()
NodeHasCapacityError_cased(details) == Contains(NEEDLE, OrEmpty(details))

\* the mutant: the diagnostic has to be the substring itself
NodeHasCapacityError_exact(details) == Lower(OrEmpty(details)) = NEEDLE

\* lines 94 and 97: one node's test
NodeHasCapacityError(details) == Contains(NEEDLE, Lower(OrEmpty(details)))

stuck_count(nodes) ==
  Cardinality({i \in 1..Len(nodes) : NodeHasCapacityError(nodes[i])})

\* the mutant: stuck as soon as one node carries the diagnostic
is_nodepool_stuck_any(resp) ==
  IF ~resp.ok THEN FALSE
  ELSE LET nodes == OrEmpty(resp.nodes)
       IN  IF nodes = <<>> THEN FALSE
           ELSE stuck_count(nodes) >= 1

\* the mutant: a failed detail query counts as stuck
is_nodepool_stuck_failstuck(resp) ==
  IF ~resp.ok THEN TRUE
  ELSE LET nodes == OrEmpty(resp.nodes)
       IN  IF nodes = <<>> THEN FALSE
           ELSE stuck_count(nodes) = Len(nodes)

\* the mutant: the count of stuck nodes is compared with one more than the
\* number of nodes, which it never reaches
is_nodepool_stuck_never(resp) ==
  IF ~resp.ok THEN FALSE
  ELSE LET nodes == OrEmpty(resp.nodes)
       IN  IF nodes = <<>> THEN FALSE
           ELSE stuck_count(nodes) = Len(nodes) + 1

is_nodepool_stuck(resp) ==
  IF ~resp.ok THEN FALSE
  ELSE LET nodes == OrEmpty(resp.nodes)
       IN  IF nodes = <<>> THEN FALSE
           ELSE stuck_count(nodes) = Len(nodes)

(***************************************************************************)
(* delete_nodepool (lines 112-120): True when the delete was accepted; a   *)
(* failure is swallowed.                                                   *)
(***************************************************************************)
delete_nodepool(accepted) == accepted

(***************************************************************************)
(* check_capacity (lines 123-148).  resp is the capacity report's          *)
(* response: ok = FALSE when the call raised (or the report lists no       *)
(* shape); status is the first shape's availability_status.                *)
(***************************************************************************)
\* the mutant: a failed capacity query counts as available
check_capacity_failopen(resp) ==
  IF ~resp.ok THEN TRUE ELSE resp.status = "AVAILABLE"

check_capacity(resp) ==
  IF ~resp.ok THEN FALSE ELSE resp.status = "AVAILABLE"

(***************************************************************************)
(* get_node_image_id (lines 151-176).  resp is get_node_pool_options'      *)
(* response: ok = FALSE when it raised; sources is the catalog, a list of  *)
(* [source_name, image_id], source_name None or a string.  Returns the     *)
(* image id, 0 for None.                                                   *)
(***************************************************************************)
version_prefix(k8s_version) == LStrip(k8s_version, {"v"})

\* line 163, 171: the version test on one catalog entry
VersionIn(k8s_version, source) ==
  Contains(version_prefix(k8s_version), OrEmpty(source.source_name))

\* lines 164-167: the architecture test on one catalog entry
ArchMatch(is_arm, source) ==
  LET source_name == OrEmpty(source.source_name)
  IN  \/ is_arm /\ Contains(AARCH64, source_name)
      \/ ~is_arm /\ ~Contains(AARCH64, source_name) /\ ~Contains(GPU, source_name)

\* the mutant: no fallback pass, and the version is matched with its marker
get_node_image_id_nostrip(resp, k8s_version, is_arm) ==
  IF ~resp.ok THEN 0
  ELSE LET sources == resp.sources
           exact == {i \in 1..Len(sources) :
                       /\ Contains(k8s_version, OrEmpty(sources[i].source_name))
                       /\ ArchMatch(is_arm, sources[i])}
       IN  IF exact # {} THEN sources[Min(exact)].image_id ELSE 0

\* the mutant: the first entry of the catalog, whatever its name
get_node_image_id_first(resp, k8s_version, is_arm) ==
  IF ~resp.ok \/ resp.sources = <<>> THEN 0 ELSE resp.sources[1].image_id

get_node_image_id(resp, k8s_version, is_arm) ==
  IF ~resp.ok THEN 0
  ELSE LET sources == resp.sources
           exact == {i \in 1..Len(sources) :
                       /\ VersionIn(k8s_version, sources[i])
                       /\ ArchMatch(is_arm, sources[i])}
           any   == {i \in 1..Len(sources) : VersionIn(k8s_version, sources[i])}
       IN  IF exact # {} THEN sources[Min(exact)].image_id
           ELSE IF any # {} THEN sources[Min(any)].image_id
           ELSE 0

(***************************************************************************)
(* Configuration (main, lines 241-255): the defaults of the optional       *)
(* values, and names standing for the required identifiers.                *)
(***************************************************************************)
Config ==
  [compartment_id |-> "tenancy-ocid",
   cluster_id     |-> "cluster-ocid",
   subnet_id      |-> "subnet-ocid",
   node_shape     |-> DEFAULT_NODE_SHAPE,
   node_ocpus     |-> 2,
   node_memory_gb |-> 12,
   node_count     |-> 2,
   k8s_version    |-> DEFAULT_K8S_VERSION,
   node_pool_name |-> "my-nodes"]

\* line 255
IsArm(node_shape) == Contains(A1, node_shape)
is_arm == IsArm(Config.node_shape)

(***************************************************************************)
(* The remote state, and the state of the invocations.                     *)
(*   pools    : slot -> [state, nodes]; a slot's number is the pool's id,  *)
(*              state "ABSENT" is a free slot, nodes the lifecycle_details *)
(*              of the pool's nodes                                        *)
(*   capacity : the availability status the capacity report gives          *)
(*   catalog  : the image catalog                                          *)
(*   inv      : invoker -> the invocation's position (pc), its locals, the *)
(*              result it returns and the calls it has issued, each with   *)
(*              its request (arg), whether it succeeded (ok) and what it   *)
(*              answered (out)                                             *)
(*   last     : what the last finished invocation returned, and whether    *)
(*              the remote state is still (same) what it was when that     *)
(*              invocation began; NotRecorded where invocations are not    *)
(*              compared.  An invocation holds a copy of it (prev) and     *)
(*              whether the remote state changed under it (quiet).         *)
(*   stuck_in, stuck_out, img_in, img_out : input and result of            *)
(*              is_nodepool_stuck and get_node_image_id applied alone      *)
(***************************************************************************)
VARIABLES pools, capacity, catalog, inv, last,
          stuck_in, stuck_out, img_in, img_out

vars == <<pools, capacity, catalog, inv, last,
          stuck_in, stuck_out, img_in, img_out>>
remote == <<pools, capacity, catalog>>
pure == <<stuck_in, stuck_out, img_in, img_out>>

Invokers == {1, 2}
\* the invokers of the sequential specification
Sequential == {1}

PoolIds == 1..MaxPools

STATUSES ==
  {"active", "creating", "no_capacity", "stuck_deleted", "deleting", "error"}

\* node lists of a pool being created: none yet, three nodes all with the
\* capacity diagnostic, three nodes of which one has it and two have an
\* empty or no diagnostic
NoNodes == <<>>
AllStuck == <<Some(DiagCapMixed), Some(DiagCapLower), Some(DiagCapMixed)>>
OneStuck == <<Some(DiagCapLower), Some(<<>>), None>>
PoolNodeLists == {NoNodes, AllStuck, OneStuck}

CapacityStatuses == {"AVAILABLE", "OUT_OF_HOST_CAPACITY"}

CatalogMatch ==
  <<[source_name |-> Some(ImgGpu), image_id |-> 1],
    [source_name |-> Some(ImgArm), image_id |-> 2]>>
CatalogNoMatch ==
  <<[source_name |-> Some(ImgArmOld), image_id |-> 1]>>
Catalogs == {CatalogMatch, CatalogNoMatch}

\* what list_availability_domains may return
AdLists == {<<>>, <<"AD-2", "AD-1">>}

AbsentPool == [state |-> "ABSENT", nodes |-> NoNodes]

NoResult ==
  [status |-> "none", nodepool_id |-> 0, deleted_id |-> 0,
   work_request_id |-> 0, message |-> ""]

\* no earlier invocation to compare with
NoLast ==
  [status |-> "none", message |-> "", clean |-> TRUE, obs |-> "None", same |-> TRUE]
\* invocations are not compared
NotRecorded ==
  [status |-> "off", message |-> "", clean |-> TRUE, obs |-> "None", same |-> TRUE]

IdleInv ==
  [pc |-> "idle", pool_id |-> 0, pool_state |-> "None", ad_name |-> "None",
   image_id |-> 0, stuck |-> "unchecked", result |-> NoResult, calls |-> <<>>,
   prev |-> NotRecorded, quiet |-> TRUE]

RECURSIVE SortedSeq(_)
SortedSeq(S) ==
  IF S = {} THEN <<>> ELSE <<Min(S)>> \o SortedSeq(S \ {Min(S)})

\* the pools list_node_pools returns (lines 63-67): every pool of the name,
\* in any lifecycle state, in the order of their ids
Listing ==
  LET ids == SortedSeq({i \in PoolIds : pools[i].state # "ABSENT"})
  IN  [k \in 1..Len(ids) |-> [id |-> ids[k], lifecycle_state |-> pools[ids[k]].state]]

ListResponses ==
  {[ok |-> FALSE, data |-> None], [ok |-> TRUE, data |-> Some(Listing)]}
  \cup (IF Listing = <<>> THEN {[ok |-> TRUE, data |-> None]} ELSE {})

\* get_node_pool's responses for pool id (line 84)
DetailResponses(id) ==
  {[ok |-> FALSE, nodes |-> None]}
  \cup (IF pools[id].state = "ABSENT" THEN {}
        ELSE {[ok |-> TRUE, nodes |-> Some(pools[id].nodes)]}
             \cup (IF pools[id].nodes = <<>>
                   THEN {[ok |-> TRUE, nodes |-> None]} ELSE {}))

CapacityResponses ==
  {[ok |-> FALSE, status |-> "None"], [ok |-> TRUE, status |-> capacity]}

CatalogResponses ==
  {[ok |-> FALSE, sources |-> <<>>], [ok |-> TRUE, sources |-> catalog]}

Init ==
  /\ pools = [i \in PoolIds |-> AbsentPool]
  /\ capacity \in CapacityStatuses
  /\ catalog \in Catalogs
  /\ inv = [p \in Invokers |-> IdleInv]
  /\ last = NotRecorded
  /\ stuck_in = None /\ stuck_out = None
  /\ img_in = None /\ img_out = None

(***************************************************************************)
(* The provider.                                                           *)
(***************************************************************************)
\* a change of the remote state is noted in the record of the last invocation
\* and in the copy a running invocation holds
Changed(l) == IF l.status \in {"none", "off"} THEN l ELSE [l EXCEPT !.same = FALSE]
Disturb(r) ==
  IF r.prev = NotRecorded THEN r ELSE [r EXCEPT !.prev = Changed(@), !.quiet = FALSE]

ProviderNext(state) ==
  CASE state \in {"CREATING", "UPDATING"} -> {"ACTIVE", "FAILED", "NEEDS_ATTENTION"}
    [] state = "ACTIVE" -> {"UPDATING", "NEEDS_ATTENTION"}
    [] state = "DELETING" -> {"DELETED"}
    [] state = "DELETED" -> {"ABSENT"}
    [] OTHER -> {}

\* a pool moves on in its lifecycle
ProviderProgress ==
  /\ \E i \in PoolIds : \E s \in ProviderNext(pools[i].state) :
       pools' = [pools EXCEPT ![i] = [state |-> s, nodes |-> NoNodes]]
  /\ last' = Changed(last)
  /\ inv' = [p \in Invokers |-> Disturb(inv[p])]
  /\ UNCHANGED <<capacity, catalog, pure>>

\* the nodes of a pool being created or updated change their diagnostics
ProviderNodes ==
  /\ \E i \in PoolIds : \E n \in PoolNodeLists :
       /\ pools[i].state \in {"CREATING", "UPDATING"}
       /\ n # pools[i].nodes
       /\ pools' = [pools EXCEPT ![i].nodes = n]
  /\ last' = Changed(last)
  /\ inv' = [p \in Invokers |-> Disturb(inv[p])]
  /\ UNCHANGED <<capacity, catalog, pure>>

CapacityChange ==
  /\ \E c \in CapacityStatuses : c # capacity /\ capacity' = c
  /\ last' = Changed(last)
  /\ inv' = [p \in Invokers |-> Disturb(inv[p])]
  /\ UNCHANGED <<pools, catalog, pure>>

CatalogChange ==
  /\ \E c \in Catalogs : c # catalog /\ catalog' = c
  /\ last' = Changed(last)
  /\ inv' = [p \in Invokers |-> Disturb(inv[p])]
  /\ UNCHANGED <<pools, capacity, pure>>

(***************************************************************************)
(* main (lines 225-334), one action per remote call.  Every action appends *)
(* the call it issues to the invocation's calls.                           *)
(***************************************************************************)
\* the results main returns (lines 272, 278, 282, 287, 292, 303, 310, 329, 334)
ResActive(id) == [NoResult EXCEPT !.status = "active", !.nodepool_id = id]
ResCreating(id) == [NoResult EXCEPT !.status = "creating", !.nodepool_id = id]
ResStuckDeleted(id, message) ==
  [NoResult EXCEPT !.status = "stuck_deleted", !.deleted_id = id, !.message = message]
ResDeleting(id) == [NoResult EXCEPT !.status = "deleting", !.nodepool_id = id]
ResNoCapacity == [NoResult EXCEPT !.status = "no_capacity"]
\* the mutant: the exception leaves main, which returns no result
ResError_propagates(message) == [NoResult EXCEPT !.message = message]

\* the mutant: the error result without the exception's text
ResError_no_text(message) == [NoResult EXCEPT !.status = "error"]

\* lines 331-334
ResError(message) == [NoResult EXCEPT !.status = "error", !.message = message]
ResCreated(work_request_id) ==
  [NoResult EXCEPT !.status = "creating", !.work_request_id = work_request_id]

\* the mutant: the return after a delete is missing and main goes on to create
Return_after_delete_continues(r, result) ==
  IF result.status = "stuck_deleted" THEN [r EXCEPT !.pc = "ads"]
  ELSE [r EXCEPT !.pc = "done", !.result = result]

Return(r, result) == [r EXCEPT !.pc = "done", !.result = result]
Issue(r, op, arg, ok, out) ==
  [r EXCEPT !.calls = Append(@, [op |-> op, arg |-> arg, ok |-> ok, out |-> out])]

\* no query and no create of the invocation failed (a refused delete and an
\* undelivered notification are swallowed and do not count)
Clean(r) ==
  \A i \in 1..Len(r.calls) :
    r.calls[i].op \notin {"delete_node_pool", "urlopen"} => r.calls[i].ok

\* the pool state the invocation found by a listing that succeeded ("None"
\* when it listed no pool in a non-terminal state)
Observed(r) ==
  IF \E i \in 1..Len(r.calls) : r.calls[i].op = "list_node_pools" /\ r.calls[i].ok
  THEN r.pool_state ELSE "unobserved"

\* the invocation changed the provider's pools
Mutated(r) ==
  \E i \in 1..Len(r.calls) :
    r.calls[i].op \in {"delete_node_pool", "create_node_pool"} /\ r.calls[i].ok

\* the mutant: a failed pool is replaced without being deleted
Branch_failed_recreates(r) ==
  IF r.pool_id # 0 /\ r.pool_state = "ACTIVE"
    THEN [r EXCEPT !.pc = "notify", !.result = ResActive(r.pool_id)]
  ELSE IF r.pool_id # 0 /\ r.pool_state \in {"CREATING", "UPDATING"}
    THEN [r EXCEPT !.pc = "detail"]
  ELSE IF r.pool_id # 0 /\ r.pool_state = "DELETING"
    THEN Return(r, ResDeleting(r.pool_id))
  ELSE [r EXCEPT !.pc = "ads"]

\* the mutant: a pool found in DELETING is treated as no pool
Branch_deleting_falls_through(r) ==
  IF r.pool_id # 0 /\ r.pool_state = "ACTIVE"
    THEN [r EXCEPT !.pc = "notify", !.result = ResActive(r.pool_id)]
  ELSE IF r.pool_id # 0 /\ r.pool_state \in {"CREATING", "UPDATING"}
    THEN [r EXCEPT !.pc = "detail"]
  ELSE IF r.pool_id # 0 /\ r.pool_state \in {"NEEDS_ATTENTION", "FAILED"}
    THEN [r EXCEPT !.pc = "delete"]
  ELSE [r EXCEPT !.pc = "ads"]

\* the mutant: a pool found in ACTIVE is deleted like a failed one
Branch_active_deleted(r) ==
  IF r.pool_id # 0 /\ r.pool_state \in {"CREATING", "UPDATING"}
    THEN [r EXCEPT !.pc = "detail"]
  ELSE IF r.pool_id # 0 /\ r.pool_state \in {"NEEDS_ATTENTION", "FAILED", "ACTIVE"}
    THEN [r EXCEPT !.pc = "delete"]
  ELSE IF r.pool_id # 0 /\ r.pool_state = "DELETING"
    THEN Return(r, ResDeleting(r.pool_id))
  ELSE [r EXCEPT !.pc = "ads"]

\* lines 265-294: the branch on what the Inspector returned
Branch(r) ==
  IF r.pool_id # 0 /\ r.pool_state = "ACTIVE"
    THEN [r EXCEPT !.pc = "notify", !.result = ResActive(r.pool_id)]
  ELSE IF r.pool_id # 0 /\ r.pool_state \in {"CREATING", "UPDATING"}
    THEN [r EXCEPT !.pc = "detail"]
  ELSE IF r.pool_id # 0 /\ r.pool_state \in {"NEEDS_ATTENTION", "FAILED"}
    THEN [r EXCEPT !.pc = "delete"]
  ELSE IF r.pool_id # 0 /\ r.pool_state = "DELETING"
    THEN Return(r, ResDeleting(r.pool_id))
  ELSE [r EXCEPT !.pc = "ads"]

\* lines 239-260: the trigger, the configuration and the clients; a missing
\* required value raises, which line 331 turns into the error result
Start(p) ==
  /\ inv[p].pc = "idle"
  /\ \E config_ok \in BOOLEAN :
       inv' = [inv EXCEPT ![p] =
                 LET r == Issue([IdleInv EXCEPT !.prev = last], "get_config", "env", config_ok, "")
                 IN  IF config_ok THEN [r EXCEPT !.pc = "list"]
                     ELSE Return(r, ResError("KeyError"))]
  /\ UNCHANGED <<remote, last, pure>>

\* the provider has a pool of the name in a non-terminal state
NonTerminalExists == \E i \in PoolIds : pools[i].state \in NON_TERMINAL_STATES

\* line 263
ListPools(p) ==
  /\ inv[p].pc = "list"
  /\ \E resp \in ListResponses :
       LET found == check_existing_nodepool(resp)
           r == [Issue(inv[p], "list_node_pools", Config.node_pool_name, resp.ok,
                       NonTerminalExists)
                   EXCEPT !.pool_id = found[1], !.pool_state = found[2]]
       IN  inv' = [inv EXCEPT ![p] = Branch(r)]
  /\ UNCHANGED <<remote, last, pure>>

\* lines 276-282
Detail(p) ==
  /\ inv[p].pc = "detail"
  /\ \E resp \in DetailResponses(inv[p].pool_id) :
       LET r == Issue(inv[p], "get_node_pool", inv[p].pool_id, resp.ok, resp.nodes)
       IN  inv' = [inv EXCEPT ![p] =
                     IF is_nodepool_stuck(resp)
                     THEN [r EXCEPT !.pc = "delete", !.stuck = "stuck"]
                     ELSE Return([r EXCEPT !.stuck = "not_stuck"], ResCreating(r.pool_id))]
  /\ UNCHANGED <<remote, last, pure>>

\* the message of the stuck_deleted result (lines 279, 288)
DeletedMessage(pool_state) ==
  IF pool_state \in {"CREATING", "UPDATING"}
  THEN "Stuck node pool deleted, will retry on next invocation"
  ELSE "Pool in failed state deleted, will retry on next invocation"

\* the mutant: a delete the provider refuses becomes the error result
DeleteResult_raising(r, deleted) ==
  IF deleted THEN ResStuckDeleted(r.pool_id, DeletedMessage(r.pool_state))
  ELSE ResError("ServiceError")

\* the mutant: the id is reported only of a pool whose delete was accepted
DeleteResult_no_id(r, deleted) ==
  ResStuckDeleted(IF deleted THEN r.pool_id ELSE 0, DeletedMessage(r.pool_state))

\* the mutant: a delete the provider refuses is reported as a pool still
\* being created
DeleteResult_unconfirmed(r, deleted) ==
  IF deleted THEN ResStuckDeleted(r.pool_id, DeletedMessage(r.pool_state))
  ELSE ResCreating(r.pool_id)

\* lines 277-279, 286-288: the result does not depend on delete_nodepool's
DeleteResult(r, deleted) ==
  ResStuckDeleted(r.pool_id, DeletedMessage(r.pool_state))

\* lines 277, 286: the provider accepts the delete of a pool it still has,
\* which then is DELETING, or refuses it
Delete(p) ==
  /\ inv[p].pc = "delete"
  /\ \E accepted \in BOOLEAN :
       LET id == inv[p].pool_id
           deleted == delete_nodepool(accepted)
           r == Issue(inv[p], "delete_node_pool", id, deleted, "")
       IN  /\ accepted => pools[id].state \in NON_TERMINAL_STATES
           /\ pools' = IF deleted
                       THEN [pools EXCEPT ![id] = [state |-> "DELETING", nodes |-> NoNodes]]
                       ELSE pools
           /\ inv' = [q \in Invokers |->
                        IF q = p THEN Return(r, DeleteResult(r, deleted))
                        ELSE IF deleted THEN Disturb(inv[q]) ELSE inv[q]]
           /\ last' = IF deleted THEN Changed(last) ELSE last
  /\ UNCHANGED <<capacity, catalog, pure>>

\* the mutant: the last availability domain of the listing
FirstAd_last(ads) == ads[Len(ads)].name

\* line 297
FirstAd(ads) == ads[1].name

\* lines 296-297: an empty listing raises at ads[0]
ListAds(p) ==
  /\ inv[p].pc = "ads"
  /\ \E ok \in BOOLEAN : \E names \in AdLists :
       LET ads == [k \in 1..Len(names) |-> [name |-> names[k]]]
           r == Issue(inv[p], "list_availability_domains", Config.compartment_id,
                      ok /\ ads # <<>>, IF ok THEN names ELSE <<>>)
       IN  inv' = [inv EXCEPT ![p] =
                     IF ~ok THEN Return(r, ResError("ServiceError"))
                     ELSE IF ads = <<>> THEN Return(r, ResError("IndexError"))
                     ELSE [r EXCEPT !.pc = "capacity", !.ad_name = FirstAd(ads)]]
  /\ UNCHANGED <<remote, last, pure>>

\* lines 126-140: the capacity report's request
CapacityReportDetails(ad_name) ==
  [compartment_id |-> Config.compartment_id,
   availability_domain |-> ad_name,
   instance_shape |-> Config.node_shape,
   ocpus |-> Config.node_ocpus,
   memory_in_gbs |-> Config.node_memory_gb]

\* lines 301-303
Capacity(p) ==
  /\ inv[p].pc = "capacity"
  /\ \E resp \in CapacityResponses :
       LET r == Issue(inv[p], "create_compute_capacity_report",
                      CapacityReportDetails(inv[p].ad_name), resp.ok, resp.status)
       IN  inv' = [inv EXCEPT ![p] =
                     IF ~check_capacity(resp) THEN Return(r, ResNoCapacity)
                     ELSE [r EXCEPT !.pc = "image"]]
  /\ UNCHANGED <<remote, last, pure>>

\* lines 308-310
Image(p) ==
  /\ inv[p].pc = "image"
  /\ \E resp \in CatalogResponses :
       LET image_id == get_node_image_id(resp, Config.k8s_version, is_arm)
           r == [Issue(inv[p], "get_node_pool_options", Config.compartment_id, resp.ok,
                       resp.sources)
                   EXCEPT !.image_id = image_id]
       IN  inv' = [inv EXCEPT ![p] =
                     IF image_id = 0
                     THEN Return(r, ResError("Could not find node image"))
                     ELSE [r EXCEPT !.pc = "create"]]
  /\ UNCHANGED <<remote, last, pure>>

\* lines 181-203, with the configuration main passes (lines 312-324)
CreateNodePoolDetails(image_id, ad_name) ==
  [compartment_id |-> Config.compartment_id,
   cluster_id |-> Config.cluster_id,
   name |-> Config.node_pool_name,
   kubernetes_version |-> Config.k8s_version,
   node_shape |-> Config.node_shape,
   ocpus |-> Config.node_ocpus,
   memory_in_gbs |-> Config.node_memory_gb,
   image_id |-> image_id,
   size |-> Config.node_count,
   placement_configs |->
     <<[availability_domain |-> ad_name, subnet_id |-> Config.subnet_id]>>]

\* lines 312-329: the provider creates the pool in the first free slot, or
\* refuses, which raises (line 331)
Create(p) ==
  /\ inv[p].pc = "create"
  /\ \E ok \in BOOLEAN :
       LET free == {i \in PoolIds : pools[i].state = "ABSENT"}
           r == Issue(inv[p], "create_node_pool",
                      CreateNodePoolDetails(inv[p].image_id, inv[p].ad_name), ok,
                      IF ok THEN Min(free) ELSE 0)
       IN  /\ ok => free # {}
           /\ pools' = IF ok
                       THEN [pools EXCEPT ![Min(free)] = [state |-> "CREATING", nodes |-> NoNodes]]
                       ELSE pools
           /\ inv' = [q \in Invokers |->
                        IF q = p
                        THEN IF ok
                             THEN [r EXCEPT !.pc = "notify", !.result = ResCreated(Min(free))]
                             ELSE Return(r, ResError("ServiceError"))
                        ELSE IF ok THEN Disturb(inv[q]) ELSE inv[q]]
           /\ last' = IF ok THEN Changed(last) ELSE last
  /\ UNCHANGED <<capacity, catalog, pure>>

\* lines 212-222, called at lines 270 and 326: nothing is sent without a
\* URL, and a failed delivery is swallowed
Notify(p) ==
  /\ inv[p].pc = "notify"
  /\ \E url_set \in BOOLEAN : \E delivered \in BOOLEAN :
       inv' = [inv EXCEPT ![p] =
                 [(IF url_set THEN Issue(inv[p], "urlopen", "url", delivered, "") ELSE inv[p])
                    EXCEPT !.pc = "done"]]
  /\ UNCHANGED <<remote, last, pure>>

\* the invocation has returned; where invocations are compared, what it
\* returned is recorded for the next one
Finish(p) ==
  /\ inv[p].pc = "done"
  /\ last' = IF last = NotRecorded THEN NotRecorded
             ELSE [status |-> inv[p].result.status, message |-> inv[p].result.message,
                   clean |-> Clean(inv[p]),
                   obs |-> Observed(inv[p]),
                   same |-> inv[p].quiet /\ ~Mutated(inv[p])]
  /\ inv' = [inv EXCEPT ![p] = IdleInv]
  /\ UNCHANGED <<remote, pure>>

\* invocations do not overlap
StartSequential(p) ==
  /\ \A q \in Invokers : inv[q].pc = "idle"
  /\ Start(p)

Next ==
  \/ ProviderProgress
  \/ ProviderNodes
  \/ CapacityChange
  \/ CatalogChange
  \/ \E p \in Sequential :
       \/ StartSequential(p)
       \/ ListPools(p)
       \/ Detail(p)
       \/ Delete(p)
       \/ ListAds(p)
       \/ Capacity(p)
       \/ Image(p)
       \/ Create(p)
       \/ Notify(p)
       \/ Finish(p)

Spec == Init /\ [][Next]_vars

(***************************************************************************)
(* Consecutive invocations compared: the same invocations, started from    *)
(* any state of one pool, with what each returned recorded for the next.   *)
(* The pools change by the invocations' own deletes and creates only.      *)
(***************************************************************************)
SlotStates ==
  {[state |-> s, nodes |-> NoNodes] :
     s \in {"ABSENT", "DELETED", "ACTIVE", "NEEDS_ATTENTION", "FAILED", "DELETING"}}
  \cup {[state |-> s, nodes |-> n] : s \in {"CREATING", "UPDATING"}, n \in PoolNodeLists}

InitRepeat ==
  /\ \E s \in SlotStates : pools = [i \in PoolIds |-> IF i = 1 THEN s ELSE AbsentPool]
  /\ capacity \in CapacityStatuses
  /\ catalog \in Catalogs
  /\ inv = [p \in Invokers |-> IdleInv]
  /\ last = NoLast
  /\ stuck_in = None /\ stuck_out = None
  /\ img_in = None /\ img_out = None

NextRepeat ==
  \/ CapacityChange
  \/ CatalogChange
  \/ \E p \in Sequential :
       \/ StartSequential(p)
       \/ ListPools(p)
       \/ Detail(p)
       \/ Delete(p)
       \/ ListAds(p)
       \/ Capacity(p)
       \/ Image(p)
       \/ Create(p)
       \/ Notify(p)
       \/ Finish(p)

SpecRepeat == InitRepeat /\ [][NextRepeat]_vars

(***************************************************************************)
(* is_nodepool_stuck applied alone to every response of the pool-detail    *)
(* query with at most MaxNodes nodes.                                      *)
(***************************************************************************)
StuckDiags ==
  {None, Some(<<>>), Some(DiagCapLower), Some(DiagCapMixed), Some(DiagNear),
   Some(DiagOther)}

StuckInputs ==
  {[ok |-> FALSE, nodes |-> None], [ok |-> TRUE, nodes |-> None]}
  \cup {[ok |-> TRUE, nodes |-> Some(n)] : n \in SeqUpTo(StuckDiags, MaxNodes)}

RestInit ==
  /\ pools = [i \in PoolIds |-> AbsentPool]
  /\ capacity = "AVAILABLE"
  /\ catalog = CatalogMatch
  /\ inv = [p \in Invokers |-> IdleInv]
  /\ last = NotRecorded

InitStuck ==
  /\ RestInit
  /\ stuck_in \in {Some(resp) : resp \in StuckInputs}
  /\ stuck_out = None
  /\ img_in = None /\ img_out = None

StuckCheck ==
  /\ stuck_in # None /\ stuck_out = None
  /\ stuck_out' = Some(is_nodepool_stuck(stuck_in[1]))
  /\ UNCHANGED <<remote, inv, last, stuck_in, img_in, img_out>>

SpecStuck == InitStuck /\ [][StuckCheck]_vars

(***************************************************************************)
(* get_node_image_id applied alone to every catalog of at most MaxCatalog  *)
(* images, for the version with and without its marker and for an ARM and  *)
(* an x86 shape.                                                           *)
(***************************************************************************)
ImageNames ==
  {None, Some(ImgArm), Some(ImgX86), Some(ImgGpu), Some(ImgArmGpu), Some(ImgArmOld)}

ImageCatalogs ==
  {[k \in 1..Len(names) |-> [source_name |-> names[k], image_id |-> k]] :
     names \in SeqUpTo(ImageNames, MaxCatalog)}

ImageInputs ==
  [resp : {[ok |-> FALSE, sources |-> <<>>]}
          \cup {[ok |-> TRUE, sources |-> s] : s \in ImageCatalogs},
   k8s_version : {DEFAULT_K8S_VERSION, BARE_K8S_VERSION},
   node_shape : {DEFAULT_NODE_SHAPE, X86_NODE_SHAPE}]

InitImage ==
  /\ RestInit
  /\ stuck_in = None /\ stuck_out = None
  /\ img_in \in {Some(x) : x \in ImageInputs}
  /\ img_out = None

ImageResolve ==
  /\ img_in # None /\ img_out = None
  /\ img_out' = Some(get_node_image_id(img_in[1].resp, img_in[1].k8s_version,
                                       IsArm(img_in[1].node_shape)))
  /\ UNCHANGED <<remote, inv, last, stuck_in, stuck_out, img_in>>

SpecImage == InitImage /\ [][ImageResolve]_vars

(***************************************************************************)
(* Overlapping invocations: the scheduler triggers an invocation while     *)
(* another one is running (spec section 5), and their remote calls         *)
(* interleave in any order.  Started from any state of one pool; the       *)
(* provider moves the pools on, and an id is never given to a second pool. *)
(***************************************************************************)
InitConcurrent ==
  /\ \E s \in SlotStates : pools = [i \in PoolIds |-> IF i = 1 THEN s ELSE AbsentPool]
  /\ capacity \in CapacityStatuses
  /\ catalog = CatalogMatch
  /\ inv = [p \in Invokers |-> IdleInv]
  /\ last = NotRecorded
  /\ stuck_in = None /\ stuck_out = None
  /\ img_in = None /\ img_out = None

\* the provider completes a deletion
DeletionCompletes ==
  /\ \E i \in PoolIds :
       /\ pools[i].state = "DELETING"
       /\ pools' = [pools EXCEPT ![i] = [state |-> "DELETED", nodes |-> NoNodes]]
  /\ last' = Changed(last)
  /\ inv' = [p \in Invokers |-> Disturb(inv[p])]
  /\ UNCHANGED <<capacity, catalog, pure>>

\* a pool being created or updated becomes active, or fails
PoolProgress ==
  /\ \E i \in PoolIds : \E s \in ProviderNext(pools[i].state) :
       /\ pools[i].state \in {"CREATING", "UPDATING"}
       /\ pools' = [pools EXCEPT ![i] = [state |-> s, nodes |-> NoNodes]]
  /\ last' = Changed(last)
  /\ inv' = [p \in Invokers |-> Disturb(inv[p])]
  /\ UNCHANGED <<capacity, catalog, pure>>

NextConcurrent ==
  \/ DeletionCompletes
  \/ PoolProgress
  \/ \E p \in Invokers :
       \/ Start(p)
       \/ ListPools(p)
       \/ Detail(p)
       \/ Delete(p)
       \/ ListAds(p)
       \/ Capacity(p)
       \/ Image(p)
       \/ Create(p)
       \/ Notify(p)
       \/ Finish(p)

SpecConcurrent == InitConcurrent /\ [][NextConcurrent]_vars

(***************************************************************************)
(* Two invocations triggered against the same remote state: the second is  *)
(* triggered before the first has made a remote call further than its pool *)
(* listing request, and the provider changes nothing while an invocation   *)
(* runs, so that every change the one sees is the other's doing.           *)
(***************************************************************************)
\* no invocation is running
Quiescent == \A p \in Invokers : inv[p].pc = "idle"

\* the trigger of an invocation that overlaps the other from its beginning
StartTogether(p) ==
  /\ \A q \in Invokers : inv[q].pc \in {"idle", "list"}
  /\ Start(p)

NextOverlap ==
  \/ Quiescent /\ DeletionCompletes
  \/ Quiescent /\ PoolProgress
  \/ Quiescent /\ ProviderNodes
  \/ Quiescent /\ CapacityChange
  \/ \E p \in Invokers :
       \/ StartTogether(p)
       \/ ListPools(p)
       \/ Detail(p)
       \/ Delete(p)
       \/ ListAds(p)
       \/ Capacity(p)
       \/ Image(p)
       \/ Create(p)
       \/ Notify(p)
       \/ Finish(p)

SpecOverlap == InitConcurrent /\ [][NextOverlap]_vars

(***************************************************************************)
(* The claims.  What they say of a diagnostic or of an image name is       *)
(* stated on the strings themselves, not through the code's tests.         *)
(***************************************************************************)
\* the positions of the calls op among the calls of invocation r
Calls(r, op) == {i \in 1..Len(r.calls) : r.calls[i].op = op}

\* the diagnostics that contain "cannot create compute instance" in any case
CapacityDiags == {Some(DiagCapLower), Some(DiagCapMixed)}
\* the image names that contain 1.32.1, aarch64, GPU
VersionNames == {Some(ImgArm), Some(ImgX86), Some(ImgGpu), Some(ImgArmGpu)}
ArmNames == {Some(ImgArm), Some(ImgArmGpu), Some(ImgArmOld)}
GpuNames == {Some(ImgGpu), Some(ImgArmGpu)}

\* the invocation issued none of the calls of the creation path
NoCreationAttempt(r) ==
  /\ Calls(r, "create_compute_capacity_report") = {}
  /\ Calls(r, "create_node_pool") = {}

\* C1, as claimed: whenever a pool of the configured name exists in a
\* non-terminal state when an invocation lists the pools, that invocation
\* issues neither the capacity report nor the create call.
C1_Original ==
  \A p \in Invokers : \A i \in Calls(inv[p], "list_node_pools") :
    inv[p].calls[i].out => NoCreationAttempt(inv[p])

\* C1, amended: whenever the pool listing of an invocation succeeds and a
\* pool of the configured name exists in a non-terminal state when it is
\* made, the invocation finds that pool and issues neither the listing of
\* availability domains, nor the capacity report, nor the catalog query, nor
\* the create call.
C1_Amended ==
  \A p \in Invokers : \A i \in Calls(inv[p], "list_node_pools") :
    (inv[p].calls[i].ok /\ inv[p].calls[i].out) =>
      /\ inv[p].pool_id # 0
      /\ NoCreationAttempt(inv[p])
      /\ Calls(inv[p], "list_availability_domains") = {}
      /\ Calls(inv[p], "get_node_pool_options") = {}

\* an invocation has returned after a successful listing made while a pool
\* was being deleted
C1_Witness ==
  \E p \in Invokers :
    /\ inv[p].pc = "done"
    /\ inv[p].pool_state = "DELETING"
    /\ \E i \in Calls(inv[p], "list_node_pools") : inv[p].calls[i].ok /\ inv[p].calls[i].out
    /\ inv[p].result.status = "deleting"

\* what the claim says makes an invocation delete: the pool found is in
\* NEEDS_ATTENTION or FAILED, or in CREATING or UPDATING with the stuck
\* check returning true
ShouldDelete(r) ==
  /\ r.pool_id # 0
  /\ \/ r.pool_state \in {"NEEDS_ATTENTION", "FAILED"}
     \/ r.pool_state \in {"CREATING", "UPDATING"} /\ r.stuck = "stuck"

\* C2: an invocation that has returned issued a delete exactly when the pool
\* it found was in NEEDS_ATTENTION or FAILED, or in CREATING or UPDATING and
\* stuck; it issued one delete, for the id found, and returned stuck_deleted
\* with that id.  No invocation ever issues a delete for an id other than
\* the one found, or when it found no pool, or a pool ACTIVE or DELETING.
C2_DeleteIff ==
  \A p \in Invokers :
    LET r == inv[p]
        deletes == Calls(r, "delete_node_pool")
    IN  /\ \A i \in deletes : r.calls[i].arg = r.pool_id /\ ShouldDelete(r)
        /\ Cardinality(deletes) <= 1
        /\ (r.pc = "done" /\ ShouldDelete(r)) => deletes # {}
        /\ (r.pc = "done" /\ deletes # {}) =>
             /\ r.result.status = "stuck_deleted"
             /\ r.result.deleted_id = r.pool_id
             /\ r.result.nodepool_id = 0

\* the scenario of the claim: a pool in CREATING with three nodes that all
\* carry the capacity diagnostic was deleted
C2_Witness ==
  \E p \in Invokers :
    /\ inv[p].pc = "done"
    /\ inv[p].pool_state = "CREATING"
    /\ \E i \in Calls(inv[p], "get_node_pool") :
         inv[p].calls[i].ok /\ inv[p].calls[i].out = Some(AllStuck)
    /\ \E i \in Calls(inv[p], "delete_node_pool") : inv[p].calls[i].arg = inv[p].pool_id
    /\ inv[p].result.status = "stuck_deleted"
    /\ inv[p].result.deleted_id = inv[p].pool_id

\* the stuck check of r was made on the node list of the claim's scenario:
\* three nodes, one with the capacity diagnostic, two without
SawOneStuck(r) ==
  \E i \in Calls(r, "get_node_pool") : r.calls[i].ok /\ r.calls[i].out = Some(OneStuck)

\* C3: an invocation that has returned after finding a pool ACTIVE returned
\* active with the pool's id; DELETING, deleting; CREATING or UPDATING and
\* not stuck (as with one node of three carrying the diagnostic), creating
\* with the pool's id; and in these cases it issued no delete and no create.
C3_WaitingStates ==
  \A p \in Invokers :
    LET r == inv[p]
    IN  (r.pc = "done" /\ r.pool_id # 0) =>
          /\ r.pool_state = "ACTIVE" => r.result = ResActive(r.pool_id)
          /\ r.pool_state = "DELETING" => r.result.status = "deleting"
          /\ (r.pool_state \in {"CREATING", "UPDATING"} /\ r.stuck = "not_stuck")
               => r.result = ResCreating(r.pool_id)
          /\ (r.pool_state \in {"CREATING", "UPDATING"} /\ SawOneStuck(r))
               => r.stuck = "not_stuck"
          /\ (\/ r.pool_state \in {"ACTIVE", "DELETING"}
              \/ r.pool_state \in {"CREATING", "UPDATING"} /\ r.stuck = "not_stuck")
               => /\ Calls(r, "delete_node_pool") = {}
                  /\ Calls(r, "create_node_pool") = {}
                  /\ ~Mutated(r)

\* the scenario of the claim: a pool in CREATING with one node of three
\* carrying the diagnostic is left to continue
C3_Witness ==
  \E p \in Invokers :
    /\ inv[p].pc = "done"
    /\ inv[p].pool_state = "CREATING"
    /\ SawOneStuck(inv[p])
    /\ inv[p].result = ResCreating(inv[p].pool_id)
    /\ Calls(inv[p], "delete_node_pool") = {}

\* C4: an invocation whose capacity report failed or gave a status other
\* than AVAILABLE has returned exactly {status: no_capacity}, and the
\* capacity report was its last call: no catalog query, no create.
C4_NoCapacity ==
  \A p \in Invokers :
    LET r == inv[p]
    IN  \A i \in Calls(r, "create_compute_capacity_report") :
          (~r.calls[i].ok \/ r.calls[i].out # "AVAILABLE") =>
            /\ r.pc = "done"
            /\ r.result = ResNoCapacity
            /\ i = Len(r.calls)
            /\ Calls(r, "get_node_pool_options") = {}
            /\ Calls(r, "create_node_pool") = {}

\* an invocation returned no_capacity after its capacity query raised
C4_Witness ==
  \E p \in Invokers :
    /\ inv[p].pc = "done"
    /\ \E i \in Calls(inv[p], "create_compute_capacity_report") : ~inv[p].calls[i].ok
    /\ inv[p].result.status = "no_capacity"

\* the invocation found no pool, was told that capacity is AVAILABLE and
\* resolved an image
ReadyToCreate(r) ==
  /\ r.pool_id = 0
  /\ \E i \in Calls(r, "create_compute_capacity_report") :
       r.calls[i].ok /\ r.calls[i].out = "AVAILABLE"
  /\ Calls(r, "get_node_pool_options") # {}
  /\ r.image_id # 0

\* C5: an invocation that found no pool, was told that capacity is AVAILABLE
\* and resolved an image is about to issue the create call or has issued
\* exactly one, with the configured name, cluster, version, shape, ocpus,
\* memory, node count and subnet, the image resolved, and one placement in
\* the first availability domain listed; when the call succeeded the
\* invocation returns creating with the work-request id.
C5_CreateOnce ==
  \A p \in Invokers :
    LET r == inv[p]
        creates == Calls(r, "create_node_pool")
    IN  ReadyToCreate(r) =>
          /\ r.pc \in {"create", "notify", "done"}
          /\ r.pc = "create" => creates = {}
          /\ r.pc # "create" =>
               /\ Cardinality(creates) = 1
               /\ \A i \in creates :
                    LET d == r.calls[i].arg
                    IN  /\ d.name = "my-nodes"
                        /\ d.cluster_id = "cluster-ocid"
                        /\ d.compartment_id = "tenancy-ocid"
                        /\ d.kubernetes_version = DEFAULT_K8S_VERSION
                        /\ d.node_shape = DEFAULT_NODE_SHAPE
                        /\ d.ocpus = 2 /\ d.memory_in_gbs = 12 /\ d.size = 2
                        /\ d.image_id = r.image_id
                        /\ Len(d.placement_configs) = 1
                        /\ d.placement_configs[1].subnet_id = "subnet-ocid"
                        /\ \E j \in Calls(r, "list_availability_domains") :
                             d.placement_configs[1].availability_domain = r.calls[j].out[1]
                        /\ r.calls[i].ok =>
                             /\ r.result.status = "creating"
                             /\ r.result.work_request_id = r.calls[i].out
                             /\ r.calls[i].out # 0

\* an invocation created the pool and returned creating with the
\* work-request id
C5_Witness ==
  \E p \in Invokers :
    /\ inv[p].pc = "done"
    /\ ReadyToCreate(inv[p])
    /\ \E i \in Calls(inv[p], "create_node_pool") : inv[p].calls[i].ok
    /\ inv[p].result.status = "creating"
    /\ inv[p].result.work_request_id # 0
    /\ pools[inv[p].result.work_request_id].state = "CREATING"
\* C6: for every successful pool-detail response with a node list of size N,
\* of which k nodes carry a diagnostic containing "cannot create compute
\* instance" in any case: is_nodepool_stuck is true when N >= 1 and k = N,
\* false when k < N, false when the list is empty or absent.  A node
\* without a diagnostic does not count among the k.
C6_StuckAllOrNothing ==
  (stuck_in # None /\ stuck_out # None /\ stuck_in[1].ok) =>
    LET nodes == OrEmpty(stuck_in[1].nodes)
        N == Len(nodes)
        k == Cardinality({i \in 1..N : nodes[i] \in CapacityDiags})
    IN  /\ (N >= 1 /\ k = N) => stuck_out = Some(TRUE)
        /\ k < N => stuck_out = Some(FALSE)
        /\ N = 0 => stuck_out = Some(FALSE)

\* three nodes that all carry the diagnostic, one of them in mixed case,
\* were found stuck
C6_Witness ==
  /\ stuck_in # None /\ stuck_out = Some(TRUE)
  /\ stuck_in[1].ok
  /\ Len(OrEmpty(stuck_in[1].nodes)) = 3
  /\ \E i \in 1..3 : OrEmpty(stuck_in[1].nodes)[i] = Some(DiagCapMixed)

\* the entries of a catalog whose name contains the version, and those among
\* them whose name contains the ARM marker
WithVersion(sources) ==
  {i \in 1..Len(sources) : sources[i].source_name \in VersionNames}
WithVersionArm(sources) ==
  {i \in WithVersion(sources) : sources[i].source_name \in ArmNames}

SawCatalog(r, has) ==
  \E i \in Calls(r, "get_node_pool_options") :
    r.calls[i].ok /\ ((WithVersion(r.calls[i].out) # {}) = has)

\* C8: an invocation that found no pool, was told that capacity is AVAILABLE
\* and was answered with a catalog without an entry containing the version
\* has returned {status: error, message: "Could not find node image"} and
\* issued no create.  An invocation that follows one that returned so, finds
\* no pool, is told that capacity is AVAILABLE and is answered with a
\* catalog that has a match, goes on to the create call.
C8_ImageError ==
  \A p \in Invokers :
    LET r == inv[p]
    IN  /\ SawCatalog(r, FALSE) =>
             /\ r.pool_id = 0
             /\ r.pc = "done"
             /\ r.result = ResError("Could not find node image")
             /\ Calls(r, "create_node_pool") = {}
        /\ (/\ r.prev.status = "error"
            /\ r.prev.message = "Could not find node image"
            /\ SawCatalog(r, TRUE)) =>
             /\ r.pool_id = 0
             /\ r.pc \in {"create", "notify", "done"}
             /\ r.pc # "create" => Calls(r, "create_node_pool") # {}

\* after an invocation that could not find the image, the next one created
\* the pool
C8_Witness ==
  \E p \in Invokers :
    /\ inv[p].pc = "done"
    /\ inv[p].prev.status = "error"
    /\ inv[p].prev.message = "Could not find node image"
    /\ \E i \in Calls(inv[p], "create_node_pool") : inv[p].calls[i].ok
    /\ inv[p].result.status = "creating"

\* the next call of a running invocation
Step(p) ==
  \/ ListPools(p) \/ Detail(p) \/ Delete(p) \/ ListAds(p)
  \/ Capacity(p) \/ Image(p) \/ Create(p) \/ Notify(p)

\* C9: an invocation that has returned, returned a result whose status is
\* one of active, creating, no_capacity, stuck_deleted, deleting, error,
\* whichever of its calls failed; and an invocation that has not returned
\* can always make its next call, so that none is left without a result.
C9_AlwaysReturns ==
  \A p \in Invokers :
    /\ inv[p].pc = "done" => inv[p].result.status \in STATUSES
    /\ inv[p].pc \notin {"idle", "done"} => ENABLED Step(p)

\* an invocation whose pool listing and whose create call both failed
\* returned error
C9_Witness ==
  \E p \in Invokers :
    /\ inv[p].pc = "done"
    /\ \E i \in Calls(inv[p], "list_node_pools") : ~inv[p].calls[i].ok
    /\ \E i \in Calls(inv[p], "create_node_pool") : ~inv[p].calls[i].ok
    /\ inv[p].result.status = "error"

\* the invocation follows one since whose beginning the remote state has
\* not changed, and the pool listings of both succeeded and found the same
\* pool state, other than ACTIVE, or both found no pool
SameRemoteAsBefore(r) ==
  /\ r.pc = "done"
  /\ r.prev.status \in STATUSES
  /\ r.prev.same
  /\ r.prev.obs = Observed(r)
  /\ Observed(r) \notin {"unobserved", "ACTIVE"}

\* C10, as claimed: two consecutive invocations between which the remote
\* state does not change, and which find the same pool state other than
\* ACTIVE (or no pool), return the same status.
C10_Original ==
  \A p \in Invokers :
    SameRemoteAsBefore(inv[p]) => inv[p].result.status = inv[p].prev.status

\* C10, amended: two consecutive invocations between which the remote state
\* does not change, which find the same pool state other than ACTIVE (or no
\* pool), and in neither of which a query (pool listing, pool detail,
\* availability domains, capacity report, catalog) or the create call
\* fails, return the same status.
C10_Amended ==
  \A p \in Invokers :
    (SameRemoteAsBefore(inv[p]) /\ inv[p].prev.clean /\ Clean(inv[p])) =>
      inv[p].result.status = inv[p].prev.status

\* two consecutive invocations found the same FAILED pool, the first one's
\* delete having been refused, and both returned stuck_deleted
C10_Witness ==
  \E p \in Invokers :
    /\ SameRemoteAsBefore(inv[p])
    /\ inv[p].prev.clean /\ Clean(inv[p])
    /\ inv[p].pool_state = "FAILED"
    /\ inv[p].prev.status = "stuck_deleted"
    /\ inv[p].result.status = "stuck_deleted"

\* the lifecycle states the claims call non-terminal
LiveStates ==
  {"ACTIVE", "CREATING", "UPDATING", "NEEDS_ATTENTION", "FAILED", "DELETING"}
\* the pools of the configured name the provider has in a non-terminal state
LivePools == {i \in PoolIds : pools[i].state \in LiveStates}

\* the invocation is on the creation path or has issued the create call
Creating(r) ==
  \/ r.pc \in {"ads", "capacity", "image", "create"}
  \/ Calls(r, "create_node_pool") # {}

\* C11, as claimed: with overlapping invocations, in every reachable state
\* the provider has at most one pool of the configured name in a
\* non-terminal state.
C11_Original == Cardinality(LivePools) <= 1

\* C11, amended: with overlapping invocations, an invocation takes the
\* creation path and issues the create call only when its own pool listing
\* reported no pool: the listing failed, or the provider had no pool of the
\* name in a non-terminal state when it was made.  An invocation that found
\* a pool never issues the create call.
C11_Amended ==
  \A p \in Invokers :
    Creating(inv[p]) =>
      /\ inv[p].pool_id = 0
      /\ \A i \in Calls(inv[p], "list_node_pools") :
           inv[p].calls[i].ok => ~inv[p].calls[i].out

\* two overlapping invocations both listed no pool, and both created one:
\* the provider has two pools of the name being created
C11_Witness ==
  /\ \A p \in Invokers :
       /\ \E i \in Calls(inv[p], "list_node_pools") : inv[p].calls[i].ok /\ ~inv[p].calls[i].out
       /\ \E i \in Calls(inv[p], "create_node_pool") : inv[p].calls[i].ok
  /\ Cardinality({i \in PoolIds : pools[i].state = "CREATING"}) = 2

\* the provider action an invocation requested: the delete of a pool, the
\* create, or nothing
Requested(r) ==
  IF Calls(r, "delete_node_pool") # {}
    THEN <<"delete", r.calls[Min(Calls(r, "delete_node_pool"))].arg>>
  ELSE IF Calls(r, "create_node_pool") # {} THEN <<"create", 0>>
  ELSE <<"nothing", 0>>

\* the answers the invocation got from the pool listing and the pool detail
PoolAnswers(r) ==
  {<<r.calls[i].op, r.calls[i].ok, r.calls[i].out>> :
     i \in Calls(r, "list_node_pools") \cup Calls(r, "get_node_pool")}

\* both invocations have returned
BothReturned == \A p \in Invokers : inv[p].pc = "done"

\* C12, as claimed: two overlapping invocations triggered against the same
\* remote state return the same status and request the same provider action
\* (both nothing, both the delete of the same pool, or both the create);
\* stated for the invocations in which no query and no create call fails.
C12_Original ==
  BothReturned =>
    \A p, q \in Invokers :
      (Clean(inv[p]) /\ Clean(inv[q])) =>
        /\ inv[p].result.status = inv[q].result.status
        /\ Requested(inv[p]) = Requested(inv[q])

\* C12, amended: two overlapping invocations triggered against the same
\* remote state, in neither of which a query or the create call fails, and
\* which find the same pool in the same state with the same nodes (neither
\* lists or inspects after the other's delete or create took effect), return
\* the same status and request the same provider action.
C12_Amended ==
  BothReturned =>
    \A p, q \in Invokers :
      (/\ Clean(inv[p]) /\ Clean(inv[q])
       /\ inv[p].pool_id = inv[q].pool_id
       /\ inv[p].pool_state = inv[q].pool_state
       /\ PoolAnswers(inv[p]) = PoolAnswers(inv[q])) =>
        /\ inv[p].result.status = inv[q].result.status
        /\ Requested(inv[p]) = Requested(inv[q])

\* two overlapping invocations found the same FAILED pool; the provider
\* accepted the delete of the one and refused that of the other, and both
\* returned stuck_deleted
C12_Witness ==
  /\ BothReturned
  /\ \A p \in Invokers :
       /\ Clean(inv[p])
       /\ inv[p].pool_id = 1 /\ inv[p].pool_state = "FAILED"
       /\ inv[p].result.status = "stuck_deleted"
  /\ \E p, q \in Invokers :
       /\ \E i \in Calls(inv[p], "delete_node_pool") : inv[p].calls[i].ok
       /\ \E i \in Calls(inv[q], "delete_node_pool") : ~inv[q].calls[i].ok

(***************************************************************************)
(* Repeated invocation, with what the scheduler and the provider are taken *)
(* to guarantee.  The scheduler triggers again after every return and      *)
(* every remote call returns; remote calls fail for a time only; the       *)
(* provider completes a deletion it accepted, later forgets the deleted    *)
(* pool, and completes the creation of a pool that is again and again able *)
(* to get its nodes; capacity becomes available and remains so; the        *)
(* catalog has an image of the configured version.                         *)
(***************************************************************************)
\* the last call of the invocation succeeded
Ok(p) == inv[p].calls # <<>> /\ inv[p].calls[Len(inv[p].calls)].ok

\* the provider forgets a deleted pool
DeletedForgotten ==
  /\ ProviderProgress
  /\ \E i \in PoolIds : pools[i].state = "DELETED" /\ pools'[i].state = "ABSENT"

\* a pool none of whose nodes carries a diagnostic becomes ACTIVE while
\* capacity is available
CreationCompletes ==
  /\ ProviderProgress
  /\ capacity = "AVAILABLE"
  /\ \E i \in PoolIds :
       /\ pools[i].state \in {"CREATING", "UPDATING"}
       /\ pools[i].nodes = NoNodes
       /\ pools'[i].state = "ACTIVE"

\* the number of nodes of a list that carry the capacity diagnostic
DiagCount(nodes) == Cardinality({k \in 1..Len(nodes) : nodes[k] \in CapacityDiags})

\* more nodes of a pool being created or updated get the capacity
\* diagnostic; a node that has it keeps it
NodesWorsen ==
  /\ ProviderNodes
  /\ \A i \in PoolIds : DiagCount(pools'[i].nodes) >= DiagCount(pools[i].nodes)

\* capacity becomes available, and remains so
CapacityReturns ==
  /\ capacity # "AVAILABLE"
  /\ capacity' = "AVAILABLE"
  /\ UNCHANGED <<pools, catalog, inv, last, pure>>

InitLive ==
  /\ pools = [i \in PoolIds |-> AbsentPool]
  /\ capacity \in CapacityStatuses
  /\ catalog = CatalogMatch
  /\ inv = [p \in Invokers |-> IdleInv]
  /\ last = NotRecorded
  /\ stuck_in = None /\ stuck_out = None
  /\ img_in = None /\ img_out = None

NextLive ==
  \/ ProviderProgress
  \/ NodesWorsen
  \/ CapacityReturns
  \/ \E p \in Sequential :
       \/ StartSequential(p)
       \/ ListPools(p)
       \/ Detail(p)
       \/ Delete(p)
       \/ ListAds(p)
       \/ Capacity(p)
       \/ Image(p)
       \/ Create(p)
       \/ Notify(p)
       \/ Finish(p)

\* no call issued in this step fails
NoCallFails ==
  \A p \in Sequential :
    (inv'[p].calls # inv[p].calls /\ inv'[p].calls # <<>>) => Ok(p)'

Fairness ==
  /\ \A p \in Sequential :
       /\ WF_vars(StartSequential(p))
       /\ WF_vars(Step(p))
       /\ WF_vars(Finish(p))
  /\ <>[][NoCallFails]_vars
  /\ WF_vars(DeletionCompletes)
  /\ WF_vars(DeletedForgotten)
  /\ SF_vars(CreationCompletes)
  /\ WF_vars(CapacityReturns)

SpecLive == InitLive /\ [][NextLive]_vars /\ Fairness

\* a pool of the configured name is ACTIVE
ActiveExists == \E i \in PoolIds : pools[i].state = "ACTIVE"
\* a pool is being created or updated with some of its nodes, not all,
\* carrying the capacity diagnostic
PartlyStuck ==
  \E i \in PoolIds :
    /\ pools[i].state \in {"CREATING", "UPDATING"}
    /\ \E k \in 1..Len(pools[i].nodes) : pools[i].nodes[k] \in CapacityDiags
    /\ \E k \in 1..Len(pools[i].nodes) : pools[i].nodes[k] \notin CapacityDiags

\* C13, as claimed: with capacity eventually available for good and the
\* provider completing the deletions it accepted, repeated invocations lead
\* from every reachable state to a pool of the configured name being ACTIVE.
C13_Original == []<>ActiveExists

\* C13, amended: the same, provided that from some time on no pool is in
\* CREATING or UPDATING with some of its nodes, but not all, carrying the
\* capacity diagnostic.
C13_Amended == <>[]~PartlyStuck => []<>ActiveExists

\* after a pool was deleted, a pool created anew has become ACTIVE and an
\* invocation has returned active for it
C13_Witness ==
  \E p \in Invokers :
    /\ inv[p].pc = "done"
    /\ inv[p].result.status = "active"
    /\ inv[p].result.nodepool_id # 0
    /\ pools[inv[p].result.nodepool_id].state = "ACTIVE"
    /\ \E i \in PoolIds : i # inv[p].result.nodepool_id /\ pools[i].state = "DELETED"

\* pool i is being created or updated and every one of its nodes carries the
\* capacity diagnostic
AllNodesStuck(i) ==
  /\ pools[i].state \in {"CREATING", "UPDATING"}
  /\ pools[i].nodes # <<>>
  /\ \A k \in 1..Len(pools[i].nodes) : pools[i].nodes[k] \in CapacityDiags

\* an invocation is at the capacity check
AtCapacityCheck == \E p \in Invokers : inv[p].pc = "capacity"

\* another pool of the configured name is in a non-terminal state
OtherLive(i) == LivePools \ {i} # {}

\* the pool's deletion was accepted, or the provider itself made it ACTIVE
\* (its nodes did get capacity)
NoLongerStuck(i) == pools[i].state \in {"DELETING", "DELETED", "ABSENT", "ACTIVE"}

\* C14, as claimed: under repeated invocation, a pool in CREATING or
\* UPDATING all of whose nodes carry the capacity diagnostic for good is
\* eventually deleted, and a later invocation reaches the capacity check.
C14_Original ==
  \A i \in PoolIds :
    /\ AllNodesStuck(i) ~> NoLongerStuck(i)
    /\ AllNodesStuck(i) ~> (AtCapacityCheck \/ pools[i].state = "ACTIVE")

\* the only pool of the configured name in a non-terminal state is being
\* created or updated with every node carrying the capacity diagnostic
LoneStuck == \E i \in PoolIds : AllNodesStuck(i) /\ ~OtherLive(i)
\* the pools of the name are being deleted or gone
AllDeleted == \A i \in LivePools : pools[i].state = "DELETING"
\* there is more than one pool of the name in a non-terminal state
Duplicates == Cardinality(LivePools) >= 2

\* C14, amended: the same of a pool that is the only pool of the configured
\* name in a non-terminal state: it is eventually deleted and an invocation
\* reaches the capacity check, unless the provider itself makes it ACTIVE or
\* there comes to be another pool of the name.
C14_Amended ==
  /\ LoneStuck ~> (AllDeleted \/ ActiveExists \/ Duplicates)
  /\ LoneStuck ~> (AtCapacityCheck \/ ActiveExists \/ Duplicates)

\* a pool in UPDATING all of whose nodes carry the diagnostic was inspected
\* and deleted, and the provider accepted the delete
C14_Witness ==
  \E p \in Invokers :
    /\ inv[p].pc = "done"
    /\ inv[p].pool_state = "UPDATING"
    /\ \E i \in Calls(inv[p], "get_node_pool") :
         inv[p].calls[i].ok /\ inv[p].calls[i].out = Some(AllStuck)
    /\ \E i \in Calls(inv[p], "delete_node_pool") : inv[p].calls[i].ok
    /\ inv[p].result.status = "stuck_deleted"
    /\ pools[inv[p].pool_id].state = "DELETING"

\* the pool listing of the invocation failed
ListingFailed(r) == \E i \in Calls(r, "list_node_pools") : ~r.calls[i].ok

\* a call of the invocation other than the pool listing failed, or no image
\* was found
FailedAfterListing(r) ==
  \/ \E i \in 1..Len(r.calls) :
       r.calls[i].op \in {"list_availability_domains", "create_node_pool"} /\ ~r.calls[i].ok
  \/ r.result.message = "Could not find node image"

\* C15: an invocation whose pool listing failed holds no pool (none found),
\* inspects and deletes nothing, and goes on to the listing of availability
\* domains, the capacity check and, with capacity AVAILABLE and an image
\* resolved, the create call; when it returns error, a later call failed or
\* no image was found.
C15_ListingFailure ==
  \A p \in Invokers :
    LET r == inv[p]
    IN  ListingFailed(r) =>
          /\ r.pool_id = 0 /\ r.pool_state = "None"
          /\ Calls(r, "get_node_pool") = {} /\ Calls(r, "delete_node_pool") = {}
          /\ r.pc \in {"ads", "capacity", "image", "create", "notify", "done"}
          /\ r.pc # "ads" => Calls(r, "list_availability_domains") # {}
          /\ (r.pc \in {"image", "create", "notify"} \/ (r.pc = "done" /\ r.ad_name # "None"))
               => Calls(r, "create_compute_capacity_report") # {}
          /\ ReadyToCreate(r) =>
               (r.pc = "create" \/ Calls(r, "create_node_pool") # {})
          /\ (r.pc = "done" /\ r.result.status = "error") => FailedAfterListing(r)

\* an invocation whose pool listing failed while a pool was ACTIVE created
\* another pool and returned creating
C15_Witness ==
  \E p \in Invokers :
    /\ inv[p].pc = "done"
    /\ ListingFailed(inv[p])
    /\ \E i \in Calls(inv[p], "list_node_pools") : inv[p].calls[i].out
    /\ \E i \in Calls(inv[p], "create_node_pool") : inv[p].calls[i].ok
    /\ inv[p].result.status = "creating"
    /\ \E i \in PoolIds : pools[i].state = "ACTIVE"

\* the delete request of the invocation was refused by the provider
DeleteRefused(r) == \E i \in Calls(r, "delete_node_pool") : ~r.calls[i].ok

\* the invocation follows one that returned stuck_deleted without its delete
\* having been accepted, nothing having changed since, and it has found the
\* same pool state with none of its queries failing
AfterRefusedDelete(r) ==
  /\ r.pc = "done"
  /\ r.prev.status = "stuck_deleted"
  /\ r.prev.same
  /\ r.prev.obs = Observed(r)
  /\ Clean(r)

\* C16: an invocation whose delete request was refused has returned
\* stuck_deleted with deleted_id the id of the pool it found, and the pool is
\* at the provider as it was found; the next invocation, finding the same
\* state, issues the delete for that pool again.
C16_DeleteFailure ==
  \A p \in Invokers :
    LET r == inv[p]
    IN  /\ DeleteRefused(r) =>
             /\ r.pc = "done"
             /\ r.result.status = "stuck_deleted"
             /\ r.result.deleted_id = r.pool_id
             /\ r.pool_id # 0
             /\ ~Mutated(r)
             /\ pools[r.pool_id].state = r.pool_state
        /\ AfterRefusedDelete(r) =>
             /\ Calls(r, "delete_node_pool") # {}
             /\ \A i \in Calls(r, "delete_node_pool") : r.calls[i].arg = r.pool_id
             /\ r.result.status = "stuck_deleted"

\* after an invocation whose delete of a stuck pool in CREATING was refused,
\* the next one issued the delete again and the provider accepted it
C16_Witness ==
  \E p \in Invokers :
    /\ AfterRefusedDelete(inv[p])
    /\ inv[p].pool_state = "CREATING"
    /\ \E i \in Calls(inv[p], "delete_node_pool") : inv[p].calls[i].ok
    /\ pools[inv[p].pool_id].state = "DELETING"

\* the pool-detail query of the invocation failed
DetailFailed(r) == \E i \in Calls(r, "get_node_pool") : ~r.calls[i].ok

\* C17: when the pool-detail query fails, for a pool found in CREATING or
\* UPDATING, the stuck check answers not stuck: the invocation issues no delete
\* and has returned status creating with the id of the pool it found.
C17_DetailFailure ==
  \A p \in Invokers :
    LET r == inv[p]
    IN  DetailFailed(r) =>
          /\ r.pool_state \in {"CREATING", "UPDATING"}
          /\ r.pool_id # 0
          /\ \A i \in Calls(r, "get_node_pool") : r.calls[i].arg = r.pool_id
          /\ r.stuck = "not_stuck"
          /\ Calls(r, "delete_node_pool") = {}
          /\ Calls(r, "create_node_pool") = {}
          /\ r.pc = "done"
          /\ r.result = ResCreating(r.pool_id)
          /\ ~Mutated(r)

\* the detail query failed for a pool in UPDATING whose nodes all report the
\* capacity error: the pool is still there and the invocation answered creating
C17_Witness ==
  \E p \in Invokers :
    /\ DetailFailed(inv[p])
    /\ inv[p].pool_state = "UPDATING"
    /\ inv[p].result.status = "creating"
    /\ pools[inv[p].pool_id].state = "UPDATING"
    /\ pools[inv[p].pool_id].nodes = AllStuck

\* the requests of the invocation that change the provider's pools
Mutating(r) == Calls(r, "delete_node_pool") \cup Calls(r, "create_node_pool")

\* C18: an invocation issues at most one request that changes the provider's
\* pools, one delete or one create or none and never both; after a delete it
\* has returned, with no availability-domain listing, no capacity query, no
\* catalog query and no create.
C18_OneMutation ==
  \A p \in Invokers :
    LET r == inv[p]
    IN  /\ Cardinality(Mutating(r)) <= 1
        /\ Calls(r, "delete_node_pool") # {} =>
             /\ r.pc = "done"
             /\ r.calls[Len(r.calls)].op = "delete_node_pool"
             /\ Calls(r, "list_availability_domains") = {}
             /\ Calls(r, "create_compute_capacity_report") = {}
             /\ Calls(r, "get_node_pool_options") = {}
        /\ Calls(r, "create_node_pool") # {} =>
             /\ Calls(r, "create_compute_capacity_report") # {}
             /\ \A i \in Calls(r, "create_node_pool") :
                  \A j \in 1..Len(r.calls) : j > i => r.calls[j].op = "urlopen"

\* one invocation has deleted a stuck pool and returned while capacity is
\* available and nothing stands in the way of a create
C18_Witness ==
  \E p \in Invokers :
    /\ inv[p].pc = "done"
    /\ inv[p].stuck = "stuck"
    /\ \E i \in Calls(inv[p], "delete_node_pool") : inv[p].calls[i].ok
    /\ capacity = "AVAILABLE"
    /\ catalog = CatalogMatch
    /\ \E i \in PoolIds : pools[i].state = "ABSENT"

\* the availability-domain listing of the invocation raised or was empty
AdsFailed(r) == \E i \in Calls(r, "list_availability_domains") : ~r.calls[i].ok

\* C19: when no pool is found and the availability-domain listing raises or
\* returns an empty list, the invocation has returned status error with the
\* exception's text and has done nothing: no capacity query, no catalog query
\* and no create call.
C19_AdsFailure ==
  \A p \in Invokers :
    LET r == inv[p]
    IN  AdsFailed(r) =>
          /\ r.pool_id = 0
          /\ r.pc = "done"
          /\ r.result.status = "error"
          /\ r.result.message \in {"ServiceError", "IndexError"}
          /\ r.result = ResError(r.result.message)
          /\ r.ad_name = IdleInv.ad_name
          /\ Calls(r, "create_compute_capacity_report") = {}
          /\ Calls(r, "get_node_pool_options") = {}
          /\ Calls(r, "create_node_pool") = {}
          /\ Mutating(r) = {}

\* the listing of availability domains came back empty while there is no pool,
\* capacity is available and the catalog has the image: the index error is
\* what the invocation returned
C19_Witness ==
  \E p \in Invokers :
    /\ AdsFailed(inv[p])
    /\ inv[p].result.message = "IndexError"
    /\ Observed(inv[p]) = "None"
    /\ capacity = "AVAILABLE"
    /\ catalog = CatalogMatch
    /\ \A i \in PoolIds : pools[i].state = "ABSENT"

(***************************************************************************)
(* Invocations that do not overlap and whose pool listing never fails,     *)
(* started from any state of one pool, while the provider moves the pools  *)
(* on and capacity comes and goes.                                         *)
(***************************************************************************)
InitSequential ==
  /\ \E s \in SlotStates : pools = [i \in PoolIds |-> IF i = 1 THEN s ELSE AbsentPool]
  /\ capacity \in CapacityStatuses
  /\ catalog = CatalogMatch
  /\ inv = [p \in Invokers |-> IdleInv]
  /\ last = NotRecorded
  /\ stuck_in = None /\ stuck_out = None
  /\ img_in = None /\ img_out = None

\* line 263, the listing query answering
ListPoolsOk(p) ==
  /\ ListPools(p)
  /\ ~ListingFailed(inv'[p])

NextSequential ==
  \/ ProviderProgress
  \/ ProviderNodes
  \/ CapacityChange
  \/ \E p \in Sequential :
       \/ StartSequential(p)
       \/ ListPoolsOk(p)
       \/ Detail(p)
       \/ Delete(p)
       \/ ListAds(p)
       \/ Capacity(p)
       \/ Image(p)
       \/ Create(p)
       \/ Notify(p)
       \/ Finish(p)

SpecSequential == InitSequential /\ [][NextSequential]_vars

\* the pool the invocation's create call made, if it made one
Created(r) ==
  {r.calls[i].out : i \in {j \in Calls(r, "create_node_pool") : r.calls[j].ok}}

\* C20: with invocations that do not overlap and whose pool listing always
\* succeeds, started with at most one pool of the name in a non-terminal
\* state, the provider never has more than one pool of the name among ACTIVE,
\* CREATING, UPDATING, NEEDS_ATTENTION, FAILED and DELETING: there is none
\* while an invocation is on its way to the create call, and after the create
\* there is none but the pool it made.
C20_AtMostOnePool ==
  /\ Cardinality(LivePools) <= 1
  /\ \A p \in Invokers :
       LET r == inv[p]
       IN  /\ r.pc \in {"ads", "capacity", "image", "create"} => LivePools = {}
           /\ Created(r) # {} => LivePools \subseteq Created(r)

\* a first pool was deleted and is gone, and a later invocation has made the
\* second pool, the only one in a non-terminal state
C20_Witness ==
  /\ pools[1].state = "DELETED"
  /\ \E p \in Invokers : Created(inv[p]) = {2}
  /\ LivePools = {2}
====
